---------------------------- MODULE Spec2Model ----------------------------
(***************************************************************************)
(* Campus energy pipeline of src/Main.py: ingest_data reads the CSV files  *)
(* of a data directory, normalizes and merges them; main derives daily and *)
(* weekly aggregates and a per-building summary, fills a BuildingManager,  *)
(* draws the dashboard, exports the tables and writes the summary text.    *)
(*                                                                         *)
(* Text is a sequence of one-character strings.  Time is counted in hours  *)
(* since a Monday 00:00 (2024-01-01T00:00 is one).  kwh values are         *)
(* integers, so sums are exact; a mean is kept as the pair (sum, count).   *)
(***************************************************************************)
EXTENDS Integers, Sequences, FiniteSets, TLC

VARIABLES data_dir, pc, next_file, frames, combined, df_combined,
          daily_totals, weekly_aggregates, building_summary_df, manager,
          dashboard_png, exported, summary_txt

vars == <<data_dir, pc, next_file, frames, combined, df_combined,
          daily_totals, weekly_aggregates, building_summary_df, manager,
          dashboard_png, exported, summary_txt>>

(***************************************************************************)
(* Bounds of the model and calendar constants.                             *)
(***************************************************************************)
MaxRows == 2
MaxKwh == 2
MaxReadings == 3
HoursPerDay == 24
DaysPerWeek == 7

(***************************************************************************)
(* Generic helpers.                                                        *)
(***************************************************************************)
Range(s) == {s[i] : i \in 1..Len(s)}

RECURSIVE SumSeq(_)
SumSeq(s) == IF s = <<>> THEN 0 ELSE Head(s) + SumSeq(Tail(s))

RECURSIVE Flatten(_)
Flatten(ss) == IF ss = <<>> THEN <<>> ELSE Head(ss) \o Flatten(Tail(ss))

SelectIdx(s, Test(_)) ==
  LET RECURSIVE Go(_)
      Go(i) == IF i > Len(s) THEN <<>>
               ELSE (IF Test(s[i]) THEN <<s[i]>> ELSE <<>>) \o Go(i + 1)
  IN Go(1)

\* All orderings of the elements of a sequence.
RECURSIVE Perms(_)
Perms(s) ==
  IF s = <<>> THEN {<<>>}
  ELSE UNION {{<<s[i]>> \o p :
                 p \in Perms(SubSeq(s, 1, i - 1) \o SubSeq(s, i + 1, Len(s)))} :
              i \in 1..Len(s)}

(***************************************************************************)
(* str.capitalize() and str.split("_") on file name stems.                 *)
(***************************************************************************)
LowerCase == <<"a", "e", "j", "w">>
UpperCase == <<"A", "E", "J", "W">>

IndexIn(alphabet, c) == CHOOSE i \in 1..Len(alphabet) : alphabet[i] = c

upper(c) == IF c \in Range(LowerCase) THEN UpperCase[IndexIn(LowerCase, c)] ELSE c
lower(c) == IF c \in Range(UpperCase) THEN LowerCase[IndexIn(UpperCase, c)] ELSE c

\* str.capitalize(): first character upper-cased, the rest lower-cased.
capitalize(s) ==
  [i \in 1..Len(s) |-> IF i = 1 THEN upper(s[i]) ELSE lower(s[i])]

\* str.split("_"): the segments between underscores, empty ones included.
RECURSIVE split(_)
split(s) ==
  IF \A i \in 1..Len(s) : s[i] # "_" THEN <<s>>
  ELSE LET k == CHOOSE i \in 1..Len(s) :
                  s[i] = "_" /\ \A j \in 1..(i - 1) : s[j] # "_"
       IN <<SubSeq(s, 1, k - 1)>> \o split(SubSeq(s, k + 1, Len(s)))

\* line 73: file.stem.split("_")[0].capitalize()
InferBuilding(stem) == capitalize(split(stem)[1])

\* The last segment capitalized like the building, not taken verbatim.
InferMonthCapitalized(stem) ==
  LET parts == split(stem) IN capitalize(parts[Len(parts)])

\* line 75: file.stem.split("_")[-1]
InferMonth(stem) == LET parts == split(stem) IN parts[Len(parts)]

(***************************************************************************)
(* Cells.  A CSV cell of the timestamp column is parseable text or not; a  *)
(* cell of the kwh column is a numeral, other text, or empty.  A missing   *)
(* text cell (building, month, extra) is NaN.                              *)
(***************************************************************************)
NaN == <<"NaN">>
NaT == [k |-> "NaT", v |-> 0]
Instant(t) == [k |-> "ts", v |-> t]
TsText(t) == [k |-> "text", v |-> t]
TsJunk == [k |-> "junk", v |-> 0]
KwhNum(n) == [k |-> "num", v |-> n]
KwhJunk == [k |-> "junk", v |-> 0]
KwhEmpty == [k |-> "empty", v |-> 0]

Required == {"timestamp", "kwh"}
FourColumns == {"timestamp", "kwh", "building", "month"}

\* pd.read_csv: a kwh column holding only numerals and empty cells is float64
\* (empty -> NaN); one non-numeric cell makes the whole column object, every
\* non-empty cell a str.
ReadKwh(rows, cell) ==
  LET numeric == \A i \in 1..Len(rows) : rows[i].kwh.k # "junk"
  IN CASE cell.k = "empty" -> [k |-> "nan", v |-> 0]
       [] cell.k = "junk"  -> [k |-> "str", v |-> 0]
       [] OTHER            -> IF numeric THEN [k |-> "float", v |-> cell.v]
                              ELSE [k |-> "str", v |-> cell.v]

pd_read_csv(file) ==
  [cols |-> file.cols,
   rows |-> [i \in 1..Len(file.rows) |->
              [file.rows[i] EXCEPT !.kwh = ReadKwh(file.rows, @)]]]

\* pd.to_datetime(..., errors="coerce") on one cell.
to_datetime(cell) ==
  CASE cell.k = "text" -> Instant(cell.v)
    [] cell.k = "ts"   -> cell
    [] OTHER           -> NaT

IsStr(kwh) == kwh.k = "str"
HasStrKwh(df) == \E i \in 1..Len(df.rows) : IsStr(df.rows[i].kwh)

\* df.dropna(subset=["timestamp", "kwh"])
dropna(rows) ==
  SelectIdx(rows, LAMBDA r : r.timestamp.k # "NaT" /\ r.kwh.k # "nan")

\* lines 69-75 of ingest_data: one accepted source, normalized.
Normalize(file) ==
  LET df == pd_read_csv(file)
      coerced == [i \in 1..Len(df.rows) |->
                   [df.rows[i] EXCEPT !.timestamp = to_datetime(@)]]
      kept == dropna(coerced)
      withBuilding ==
        IF "building" \in df.cols THEN kept
        ELSE [i \in 1..Len(kept) |->
               [kept[i] EXCEPT !.building = InferBuilding(file.stem)]]
      withMonth ==
        IF "month" \in df.cols THEN withBuilding
        ELSE [i \in 1..Len(withBuilding) |->
               [withBuilding[i] EXCEPT !.month = InferMonth(file.stem)]]
  IN [cols |-> df.cols \cup {"building", "month"}, rows |-> withMonth]


(***************************************************************************)
(* Merging: pd.concat and DataFrame.sort_values.                           *)
(***************************************************************************)
EmptyDataset == [cols |-> FourColumns, rows |-> <<>>]

\* pd.concat(frames, ignore_index=True): the union of the columns, rows in
\* frame order, NaN where a frame lacks a column (only "extra" can be missing,
\* the other four are present in every normalized frame).
pd_concat(fs) ==
  [cols |-> UNION {fs[i].cols : i \in 1..Len(fs)},
   rows |-> Flatten([i \in 1..Len(fs) |->
              [j \in 1..Len(fs[i].rows) |->
                IF "extra" \in fs[i].cols THEN fs[i].rows[j]
                ELSE [fs[i].rows[j] EXCEPT !.extra = NaN]]])]

MinTs(rows) ==
  CHOOSE t \in {rows[i].timestamp.v : i \in 1..Len(rows)} :
    \A i \in 1..Len(rows) : t <= rows[i].timestamp.v

\* sort_values("timestamp") with the default kind="quicksort", which is not a
\* stable sort: rows come out in ascending timestamp order, rows of equal
\* timestamp in any order.
RECURSIVE sort_values(_)
sort_values(rows) ==
  IF rows = <<>> THEN {<<>>}
  ELSE LET m == MinTs(rows)
           ties == SelectIdx(rows, LAMBDA r : r.timestamp.v = m)
           rest == SelectIdx(rows, LAMBDA r : r.timestamp.v # m)
       IN {p \o q : p \in Perms(ties), q \in sort_values(rest)}

(***************************************************************************)
(* Aggregation engine.  A table is [numeric, rows]; numeric is FALSE for   *)
(* the object-typed result of summing a kwh column that holds str values.  *)
(***************************************************************************)
Day(t) == t \div HoursPerDay

\* Monday is day 0; resample("W") labels a week by its Sunday.
WeekEnd(d) == d + (DaysPerWeek - 1 - (d % DaysPerWeek))

KwhOf(rows, Test(_)) ==
  LET sel == SelectIdx(rows, Test) IN [i \in 1..Len(sel) |-> sel[i].kwh.v]

MinOf(s) == CHOOSE x \in Range(s) : \A y \in Range(s) : x <= y
MaxOf(s) == CHOOSE x \in Range(s) : \A y \in Range(s) : x >= y

\* df.copy(): a new frame with the same columns and rows.
df_copy(df) == [cols |-> df.cols, rows |-> df.rows]

\* df["timestamp"] = pd.to_datetime(df["timestamp"])
ConvertTimestamps(df) ==
  [df EXCEPT !.rows = [i \in 1..Len(df.rows) |->
                        [df.rows[i] EXCEPT !.timestamp = to_datetime(@)]]]

\* lines 89-91: resample("D")["kwh"].sum() of the working frame, one row per
\* calendar day from the first to the last day with a reading.
DailyTable(c) ==
  LET days == {Day(c.rows[i].timestamp.v) : i \in 1..Len(c.rows)}
      first == CHOOSE d \in days : \A e \in days : d <= e
      last == CHOOSE d \in days : \A e \in days : d >= e
  IN IF c.rows = <<>> THEN <<>>
     ELSE [n \in 1..(last - first + 1) |->
            [timestamp |-> (first + n - 1) * HoursPerDay,
             kwh |-> SumSeq(KwhOf(c.rows,
                       LAMBDA r : Day(r.timestamp.v) = first + n - 1))]]

\* Working on the caller's frame instead of a copy: set_index moves the
\* timestamp column of the caller's frame into its index.
calculate_daily_totals_in_place(df) ==
  [raised |-> FALSE,
   arg |-> [cols |-> df.cols \ {"timestamp"}, rows |-> df.rows],
   out |-> [numeric |-> TRUE, rows |-> DailyTable(ConvertTimestamps(df))]]

\* lines 87-92.  arg is the caller's frame after the call (the function works
\* on a copy), out the table.
calculate_daily_totals(df) ==
  [raised |-> FALSE,
   arg |-> df,
   out |-> [numeric |-> TRUE,
            rows |-> DailyTable(ConvertTimestamps(df_copy(df)))]]

\* lines 95-100: one row per Sunday-ending week from the first to the last
\* week with a reading; mean is (sum, count), count 0 for an empty week.
calculate_weekly_aggregates(df) ==
  LET c == ConvertTimestamps(df_copy(df))
      ends == {WeekEnd(Day(c.rows[i].timestamp.v)) : i \in 1..Len(c.rows)}
      first == CHOOSE d \in ends : \A e \in ends : d <= e
      last == CHOOSE d \in ends : \A e \in ends : d >= e
      weekly == IF c.rows = <<>> THEN <<>>
                ELSE [n \in 1..((last - first) \div DaysPerWeek + 1) |->
                       LET w == first + (n - 1) * DaysPerWeek
                           ks == KwhOf(c.rows,
                                   LAMBDA r : WeekEnd(Day(r.timestamp.v)) = w)
                       IN [timestamp |-> w * HoursPerDay,
                           sum |-> SumSeq(ks),
                           mean |-> <<SumSeq(ks), Len(ks)>>]]
  IN [raised |-> FALSE, arg |-> df, out |-> [numeric |-> TRUE, rows |-> weekly]]

\* Code-point order of the characters used in names.
CharOrder == <<"A", "E", "J", "W", "_", "a", "e", "j", "m", "w", "x">>

RECURSIVE StrLess(_, _)
StrLess(a, b) ==
  IF b = <<>> THEN FALSE
  ELSE IF a = <<>> THEN TRUE
  ELSE IF Head(a) = Head(b) THEN StrLess(Tail(a), Tail(b))
  ELSE IndexIn(CharOrder, Head(a)) < IndexIn(CharOrder, Head(b))

RECURSIVE SortNames(_)
SortNames(S) ==
  IF S = {} THEN <<>>
  ELSE LET m == CHOOSE a \in S : \A b \in S \ {a} : StrLess(a, b)
       IN <<m>> \o SortNames(S \ {m})

\* lines 103-106: groupby("building") drops the NaN key and sorts the keys.
building_wise_summary(df) ==
  LET names == SortNames({df.rows[i].building : i \in 1..Len(df.rows)} \ {NaN})
      summary == [n \in 1..Len(names) |->
                   LET ks == KwhOf(df.rows, LAMBDA r : r.building = names[n])
                   IN [building |-> names[n],
                       mean |-> <<SumSeq(ks), Len(ks)>>,
                       min |-> MinOf(ks),
                       max |-> MaxOf(ks),
                       total |-> SumSeq(ks)]]
  IN [arg |-> df, out |-> summary]


(***************************************************************************)
(* Domain model: MeterReading, Building, BuildingManager.  The manager's   *)
(* dict is the sequence of its buildings in insertion order.               *)
(***************************************************************************)
MeterReading(timestamp, kwh) == [timestamp |-> timestamp, kwh |-> kwh]

Building(name) == [name |-> name, meter_readings |-> <<>>]

BuildingManager == [buildings |-> <<>>]

HasBuilding(mgr, name) ==
  \E i \in 1..Len(mgr.buildings) : mgr.buildings[i].name = name

\* lines 34-37: the manager after the call (the building is registered).
get_or_create_building(mgr, name) ==
  IF HasBuilding(mgr, name) THEN mgr
  ELSE [mgr EXCEPT !.buildings = Append(@, Building(name))]

\* The reading replaces the building's readings instead of joining them.
add_reading_overwrite(mgr, name, reading) ==
  [mgr EXCEPT !.buildings =
     [i \in 1..Len(@) |->
        IF @[i].name = name
        THEN [@[i] EXCEPT !.meter_readings = <<reading>>]
        ELSE @[i]]]

\* lines 19-20, on the building registered under name.
add_reading(mgr, name, reading) ==
  [mgr EXCEPT !.buildings =
     [i \in 1..Len(@) |->
        IF @[i].name = name
        THEN [@[i] EXCEPT !.meter_readings = Append(@, reading)]
        ELSE @[i]]]

\* lines 22-23
calculate_total_consumption(b) ==
  SumSeq([i \in 1..Len(b.meter_readings) |-> b.meter_readings[i].kwh])

\* lines 39-44
RECURSIVE LoadRows(_, _, _)
LoadRows(mgr, df, i) ==
  IF i > Len(df.rows) THEN mgr
  ELSE LET row == df.rows[i]
           building_name == IF "building" \in df.cols THEN row.building
                            ELSE <<"U", "n", "k", "n", "o", "w", "n">>
           reading == MeterReading(row.timestamp.v, row.kwh.v)
       IN LoadRows(add_reading(get_or_create_building(mgr, building_name),
                               building_name, reading), df, i + 1)

load_from_dataframe(mgr, df) == LoadRows(mgr, df, 1)

\* lines 46-47
campus_total_consumption(mgr) ==
  SumSeq([i \in 1..Len(mgr.buildings) |->
            calculate_total_consumption(mgr.buildings[i])])

\* max(iterable, key=...): the first element no later element exceeds.
RECURSIVE MaxByTotal(_, _, _)
MaxByTotal(bs, i, best) ==
  IF i > Len(bs) THEN best
  ELSE IF calculate_total_consumption(bs[i]) > calculate_total_consumption(bs[best])
       THEN MaxByTotal(bs, i + 1, i)
       ELSE MaxByTotal(bs, i + 1, best)

\* The last building of maximal total instead of the first.
highest_consuming_building_last(mgr) ==
  IF mgr.buildings = <<>> THEN 0
  ELSE CHOOSE i \in 1..Len(mgr.buildings) :
         /\ \A j \in 1..Len(mgr.buildings) :
              calculate_total_consumption(mgr.buildings[j])
                <= calculate_total_consumption(mgr.buildings[i])
         /\ \A j \in (i + 1)..Len(mgr.buildings) :
              calculate_total_consumption(mgr.buildings[j])
                < calculate_total_consumption(mgr.buildings[i])

\* lines 49-52: the position of the returned building in the dict, 0 for None.
highest_consuming_building(mgr) ==
  IF mgr.buildings = <<>> THEN 0 ELSE MaxByTotal(mgr.buildings, 2, 1)

(***************************************************************************)
(* Presentation: dashboard, export, summary text.                          *)
(***************************************************************************)
\* lines 109-135: what the three charts draw; arg_* are the caller's tables
\* after the call.  A bar is a building with its weekly means (sum, count).
create_dashboard(daily, weekly, df) ==
  LET wb == ConvertTimestamps(df_copy(df))
      names == SortNames({wb.rows[i].building : i \in 1..Len(wb.rows)} \ {NaN})
      bars == [n \in 1..Len(names) |->
                [building |-> names[n],
                 weeks |-> calculate_weekly_aggregates(
                             [cols |-> wb.cols,
                              rows |-> SelectIdx(wb.rows,
                                 LAMBDA r : r.building = names[n])]).out.rows]]
      peak == ConvertTimestamps(df_copy(df))
      scatter == [i \in 1..Len(peak.rows) |->
                   [hour |-> peak.rows[i].timestamp.v % HoursPerDay,
                    kwh |-> peak.rows[i].kwh.v]]
  IN [arg_daily |-> daily, arg_weekly |-> weekly, arg_df |-> df,
      out |-> [line |-> daily.rows, bars |-> bars, scatter |-> scatter]]

NoText ==
  [kind |-> "absent", total_campus |-> 0, highest_name |-> NaN,
   highest_value |-> 0, peak_time |-> 0, peak_value |-> 0,
   daily_trend |-> "", weekly_trend |-> ""]

Sentinel == [NoText EXCEPT !.kind = "No data available to generate summary."]

\* df["kwh"].idxmax(): the first row holding the largest kwh.
IdxMax(rows) ==
  CHOOSE i \in 1..Len(rows) :
    /\ \A j \in 1..Len(rows) : rows[j].kwh.v <= rows[i].kwh.v
    /\ \A j \in 1..(i - 1) : rows[j].kwh.v < rows[i].kwh.v

\* Equal totals reported as increasing.
TrendInclusive(first, last) ==
  IF last >= first THEN "increasing" ELSE "decreasing or stable"

\* lines 164-165
Trend(first, last) == IF last > first THEN "increasing" ELSE "decreasing or stable"

\* lines 145-177: arg is the caller's frame after the call (line 156 assigns
\* its timestamp column), text what is written to summary.txt.
generate_summary(df, mgr) ==
  IF df.rows = <<>> THEN [arg |-> df, text |-> Sentinel]
  ELSE
    LET h == highest_consuming_building(mgr)
        converted == ConvertTimestamps(df)
        peak_row == converted.rows[IdxMax(converted.rows)]
        daily == calculate_daily_totals(converted).out.rows
        weekly == calculate_weekly_aggregates(converted).out.rows
    IN [arg |-> converted,
        text |-> [kind |-> "summary",
                  total_campus |-> campus_total_consumption(mgr),
                  highest_name |-> IF h # 0 THEN mgr.buildings[h].name
                                   ELSE <<"N", "/", "A">>,
                  highest_value |->
                    IF h # 0 THEN calculate_total_consumption(mgr.buildings[h])
                    ELSE 0,
                  peak_time |-> peak_row.timestamp.v,
                  peak_value |-> peak_row.kwh.v,
                  daily_trend |-> Trend(daily[1].kwh, daily[Len(daily)].kwh),
                  weekly_trend |-> Trend(weekly[1].sum, weekly[Len(weekly)].sum)]]


(***************************************************************************)
(* A kwh column of dtype object (str values, see pd_read_csv).  Summing it *)
(* per day either raises or yields an object-typed table, depending on the *)
(* pandas build; its mean always raises.                                   *)
(***************************************************************************)
NoTable == [numeric |-> TRUE, rows |-> <<>>]
ObjectTable == [numeric |-> FALSE, rows |-> <<>>]
Raised(df) == [raised |-> TRUE, arg |-> df, out |-> NoTable]

DailyOutcomes(df) ==
  IF HasStrKwh(df)
  THEN {Raised(df), [raised |-> FALSE, arg |-> df, out |-> ObjectTable]}
  ELSE {calculate_daily_totals(df)}

WeeklyOutcomes(df) ==
  IF HasStrKwh(df) THEN {Raised(df)} ELSE {calculate_weekly_aggregates(df)}

(***************************************************************************)
(* Data directories.  A raw file is a stem, whether read_csv can read it,  *)
(* its header and its rows.                                                *)
(***************************************************************************)
RawRow(ts, kwh, building, month, extra) ==
  [timestamp |-> ts, kwh |-> kwh, building |-> building, month |-> month,
   extra |-> extra]

File(stem, readable, cols, rows) ==
  [stem |-> stem, readable |-> readable, cols |-> cols, rows |-> rows]

SeqsUpTo(S, n) == UNION {[1..k -> S] : k \in 0..n}

\* Monday 00:00 and 12:00, Tuesday 00:00, the next Monday 00:00.
Instants == {0, HoursPerDay \div 2, HoursPerDay, DaysPerWeek * HoursPerDay}
KwhValues == {1, 2}

\* Files that cannot be read, or lack a required column.
Rejected(stem) ==
  {File(stem, FALSE, {}, <<>>),
   File(stem, TRUE, {"timestamp"},
        <<RawRow(TsText(0), KwhEmpty, NaN, NaN, NaN)>>),
   File(stem, TRUE, {"kwh", "building"},
        <<RawRow(TsJunk, KwhNum(1), <<"W">>, NaN, NaN)>>)}

\* Readings: files of timestamp and kwh only, up to MaxRows rows in all.
ReadingRows ==
  {RawRow(TsText(t), KwhNum(n), NaN, NaN, NaN) : t \in Instants, n \in KwhValues}
  \cup {RawRow(TsJunk, KwhNum(1), NaN, NaN, NaN),
        RawRow(TsText(0), KwhEmpty, NaN, NaN, NaN),
        RawRow(TsText(0), KwhJunk, NaN, NaN, NaN)}

ReadingStems == {<<"e", "_", "j">>, <<"w", "_", "j">>}

ReadingFiles(stem, n) ==
  {File(stem, TRUE, Required, rows) : rows \in [1..n -> ReadingRows]}
  \cup {f \in Rejected(stem) : Len(f.rows) = n}

RECURSIVE ReadingDirs(_, _)
ReadingDirs(used, left) ==
  {<<>>} \cup
  UNION {{<<f>> \o d : f \in ReadingFiles(stem, n),
                       d \in ReadingDirs(used \cup {stem}, left - n)} :
         stem \in ReadingStems \ used, n \in 0..left}

\* Headers: files of at most one row, with any of the optional columns.
Headers ==
  {Required \cup opt :
     opt \in {{}, {"building"}, {"month"}, {"extra"},
              {"building", "month", "extra"}}}

HeaderRows(cols) ==
  {RawRow(ts, kwh, building, month, extra) :
     ts \in {TsJunk, TsText(0)},
     kwh \in {KwhEmpty, KwhNum(1)},
     building \in IF "building" \in cols THEN {NaN, <<"W">>} ELSE {NaN},
     month \in IF "month" \in cols THEN {NaN, <<"m">>} ELSE {NaN},
     extra \in IF "extra" \in cols THEN {<<"x">>} ELSE {NaN}}

HeaderStems == {<<"e", "W">>, <<"w", "_", "j">>}

HeaderFiles(stem) ==
  Rejected(stem)
  \cup {File(stem, TRUE, cols, <<>>) : cols \in Headers}
  \cup UNION {{File(stem, TRUE, cols, <<r>>) : r \in HeaderRows(cols)} :
              cols \in Headers}

RECURSIVE HeaderDirs(_)
HeaderDirs(used) ==
  {<<>>} \cup
  UNION {{<<f>> \o d : f \in HeaderFiles(stem),
                       d \in HeaderDirs(used \cup {stem})} :
         stem \in HeaderStems \ used}

\* data_dir.glob("*.csv"): the files of the directory, in the order glob
\* yields them.
Directories == ReadingDirs({}, MaxRows) \cup HeaderDirs({})

(***************************************************************************)
(* The run of main() (lines 180-203), ingest_data inlined (lines 55-84).   *)
(***************************************************************************)
NoChart == [line |-> <<>>, bars |-> <<>>, scatter |-> <<>>]
NoExport == [written |-> FALSE, cleaned |-> EmptyDataset, summary |-> <<>>]

Init ==
  /\ data_dir \in Directories
  /\ pc = "ingest"
  /\ next_file = 1
  /\ frames = <<>>
  /\ combined = EmptyDataset
  /\ df_combined = EmptyDataset
  /\ daily_totals = NoTable
  /\ weekly_aggregates = NoTable
  /\ building_summary_df = <<>>
  /\ manager = BuildingManager
  /\ dashboard_png = NoChart
  /\ exported = NoExport
  /\ summary_txt = NoText

\* lines 59-64: read_csv raises, the file is skipped.
ReadFails ==
  /\ pc = "ingest" /\ next_file <= Len(data_dir)
  /\ ~data_dir[next_file].readable
  /\ next_file' = next_file + 1
  /\ UNCHANGED <<data_dir, pc, frames, combined, df_combined, daily_totals,
                 weekly_aggregates, building_summary_df, manager,
                 dashboard_png, exported, summary_txt>>

\* lines 66-67: a required column is missing, the file is skipped.
SkipMissingColumn ==
  /\ pc = "ingest" /\ next_file <= Len(data_dir)
  /\ data_dir[next_file].readable
  /\ ~(Required \subseteq pd_read_csv(data_dir[next_file]).cols)
  /\ next_file' = next_file + 1
  /\ UNCHANGED <<data_dir, pc, frames, combined, df_combined, daily_totals,
                 weekly_aggregates, building_summary_df, manager,
                 dashboard_png, exported, summary_txt>>

\* lines 69-77: the file is normalized and appended to frames.
AcceptSource ==
  /\ pc = "ingest" /\ next_file <= Len(data_dir)
  /\ data_dir[next_file].readable
  /\ Required \subseteq pd_read_csv(data_dir[next_file]).cols
  /\ frames' = Append(frames, Normalize(data_dir[next_file]))
  /\ next_file' = next_file + 1
  /\ UNCHANGED <<data_dir, pc, combined, df_combined, daily_totals,
                 weekly_aggregates, building_summary_df, manager,
                 dashboard_png, exported, summary_txt>>

\* lines 79-80 and 186: no frame was accepted.
ReturnEmpty ==
  /\ pc = "ingest" /\ next_file > Len(data_dir)
  /\ frames = <<>>
  /\ df_combined' = EmptyDataset
  /\ pc' = "main"
  /\ UNCHANGED <<data_dir, next_file, frames, combined, daily_totals,
                 weekly_aggregates, building_summary_df, manager,
                 dashboard_png, exported, summary_txt>>

\* lines 82-84 and 186
ConcatAndSort ==
  /\ pc = "ingest" /\ next_file > Len(data_dir)
  /\ frames # <<>>
  /\ combined' = pd_concat(frames)
  /\ \E sorted \in sort_values(combined'.rows) :
       df_combined' = [cols |-> combined'.cols, rows |-> sorted]
  /\ pc' = "main"
  /\ UNCHANGED <<data_dir, next_file, frames, daily_totals,
                 weekly_aggregates, building_summary_df, manager,
                 dashboard_png, exported, summary_txt>>

\* lines 188-190
NoValidData ==
  /\ pc = "main"
  /\ df_combined.rows = <<>>
  /\ pc' = "done"
  /\ UNCHANGED <<data_dir, next_file, frames, combined, df_combined,
                 daily_totals, weekly_aggregates, building_summary_df, manager,
                 dashboard_png, exported, summary_txt>>

\* line 192
DailyTotals ==
  /\ pc = "main"
  /\ df_combined.rows # <<>>
  /\ \E r \in DailyOutcomes(df_combined) :
       /\ df_combined' = r.arg
       /\ daily_totals' = r.out
       /\ pc' = IF r.raised THEN "crashed" ELSE "weekly"
  /\ UNCHANGED <<data_dir, next_file, frames, combined, weekly_aggregates,
                 building_summary_df, manager, dashboard_png, exported,
                 summary_txt>>

\* line 193
WeeklyAggregates ==
  /\ pc = "weekly"
  /\ \E r \in WeeklyOutcomes(df_combined) :
       /\ df_combined' = r.arg
       /\ weekly_aggregates' = r.out
       /\ pc' = IF r.raised THEN "crashed" ELSE "summary"
  /\ UNCHANGED <<data_dir, next_file, frames, combined, daily_totals,
                 building_summary_df, manager, dashboard_png, exported,
                 summary_txt>>

\* line 194
BuildingSummary ==
  /\ pc = "summary"
  /\ LET r == building_wise_summary(df_combined)
     IN /\ df_combined' = r.arg
        /\ building_summary_df' = r.out
  /\ pc' = "load"
  /\ UNCHANGED <<data_dir, next_file, frames, combined, daily_totals,
                 weekly_aggregates, manager, dashboard_png, exported,
                 summary_txt>>

\* lines 196-197
LoadManager ==
  /\ pc = "load"
  /\ manager' = load_from_dataframe(BuildingManager, df_combined)
  /\ pc' = "dashboard"
  /\ UNCHANGED <<data_dir, next_file, frames, combined, df_combined,
                 daily_totals, weekly_aggregates, building_summary_df,
                 dashboard_png, exported, summary_txt>>

\* lines 199-200
CreateDashboard ==
  /\ pc = "dashboard"
  /\ LET r == create_dashboard(daily_totals, weekly_aggregates, df_combined)
     IN /\ daily_totals' = r.arg_daily
        /\ weekly_aggregates' = r.arg_weekly
        /\ df_combined' = r.arg_df
        /\ dashboard_png' = r.out
  /\ pc' = "export"
  /\ UNCHANGED <<data_dir, next_file, frames, combined, building_summary_df,
                 manager, exported, summary_txt>>

\* lines 138-142 and 202
ExportResults ==
  /\ pc = "export"
  /\ exported' = [written |-> TRUE, cleaned |-> df_combined,
                  summary |-> building_summary_df]
  /\ pc' = "report"
  /\ UNCHANGED <<data_dir, next_file, frames, combined, df_combined,
                 daily_totals, weekly_aggregates, building_summary_df, manager,
                 dashboard_png, summary_txt>>

\* line 203
GenerateSummary ==
  /\ pc = "report"
  /\ LET r == generate_summary(df_combined, manager)
     IN /\ df_combined' = r.arg
        /\ summary_txt' = r.text
  /\ pc' = "done"
  /\ UNCHANGED <<data_dir, next_file, frames, combined, daily_totals,
                 weekly_aggregates, building_summary_df, manager,
                 dashboard_png, exported>>

Next ==
  \/ ReadFails
  \/ SkipMissingColumn
  \/ AcceptSource
  \/ ReturnEmpty
  \/ ConcatAndSort
  \/ NoValidData
  \/ DailyTotals
  \/ WeeklyAggregates
  \/ BuildingSummary
  \/ LoadManager
  \/ CreateDashboard
  \/ ExportResults
  \/ GenerateSummary

Spec == Init /\ [][Next]_vars


(***************************************************************************)
(* The BuildingManager used on its own: any sequence of                    *)
(* get_or_create_building and add_reading calls on a new manager.          *)
(***************************************************************************)
ApiNames == {<<"E">>, <<"J">>, <<"W">>}
ApiKwh == (0 - 1)..MaxKwh

ReadingCount(mgr) ==
  SumSeq([i \in 1..Len(mgr.buildings) |-> Len(mgr.buildings[i].meter_readings)])

InitManager ==
  /\ data_dir = <<>>
  /\ pc = "api"
  /\ next_file = 1
  /\ frames = <<>>
  /\ combined = EmptyDataset
  /\ df_combined = EmptyDataset
  /\ daily_totals = NoTable
  /\ weekly_aggregates = NoTable
  /\ building_summary_df = <<>>
  /\ manager = BuildingManager
  /\ dashboard_png = NoChart
  /\ exported = NoExport
  /\ summary_txt = NoText

GetOrCreateBuilding(name) ==
  /\ pc = "api"
  /\ manager' = get_or_create_building(manager, name)
  /\ UNCHANGED <<data_dir, pc, next_file, frames, combined, df_combined,
                 daily_totals, weekly_aggregates, building_summary_df,
                 dashboard_png, exported, summary_txt>>

AddReading(name, kwh) ==
  /\ pc = "api"
  /\ HasBuilding(manager, name)
  /\ ReadingCount(manager) < MaxReadings
  /\ manager' = add_reading(manager, name, MeterReading(0, kwh))
  /\ UNCHANGED <<data_dir, pc, next_file, frames, combined, df_combined,
                 daily_totals, weekly_aggregates, building_summary_df,
                 dashboard_png, exported, summary_txt>>

NextManager ==
  \/ \E name \in ApiNames : GetOrCreateBuilding(name)
  \/ \E name \in ApiNames, kwh \in ApiKwh : AddReading(name, kwh)

SpecManager == InitManager /\ [][NextManager]_vars


(***************************************************************************)
(* Properties.                                                             *)
(***************************************************************************)
Ingested == pc \notin {"ingest", "api"}

\* The manager has been loaded from the merged dataset (line 197 has run).
Loaded ==
  \/ pc \in {"dashboard", "export", "report"}
  \/ pc = "done" /\ summary_txt.kind = "summary"

KwhColumn(rows) == [i \in 1..Len(rows) |-> rows[i].kwh.v]

\* The files ingest_data has accepted so far, in frame order.
AcceptedFiles ==
  SelectIdx(SubSeq(data_dir, 1, next_file - 1),
            LAMBDA f : f.readable /\ Required \subseteq f.cols)

\* Rows of a raw file whose timestamp parses and whose kwh is a number.
ValidRowCount(file) ==
  IF file.readable /\ Required \subseteq file.cols
  THEN Len(SelectIdx(file.rows,
             LAMBDA r : r.timestamp.k = "text" /\ r.kwh.k = "num"))
  ELSE 0

C2_RowCountIsValidRows ==
  Ingested =>
    Len(df_combined.rows)
      = SumSeq([i \in 1..Len(data_dir) |-> ValidRowCount(data_dir[i])])

\* The order a stable sort by timestamp gives: ascending, rows of equal
\* timestamp in the order they had.
RECURSIVE StableSort(_)
StableSort(rows) ==
  IF rows = <<>> THEN <<>>
  ELSE LET m == MinTs(rows)
       IN SelectIdx(rows, LAMBDA r : r.timestamp.v = m)
          \o StableSort(SelectIdx(rows, LAMBDA r : r.timestamp.v # m))

\* C3: the merged dataset is the concatenation of the normalized sources
\* sorted by timestamp with ties in their concatenation order.
C3_SortedAndStable ==
  (Ingested /\ frames # <<>>) => df_combined.rows = StableSort(combined.rows)

\* C4: every row of the merged dataset has a timestamp, a kwh, a building and
\* a period label that are not null.
C4_NoNullCells ==
  Ingested =>
    \A i \in 1..Len(df_combined.rows) :
      /\ df_combined.rows[i].timestamp.k = "ts"
      /\ df_combined.rows[i].kwh.k # "nan"
      /\ df_combined.rows[i].building # NaN
      /\ df_combined.rows[i].month # NaN

\* C5: every normalized frame, and the merged dataset, has exactly the four
\* columns timestamp, kwh, building and month.
C5_ExactlyFourColumns ==
  /\ \A i \in 1..Len(frames) : frames[i].cols = FourColumns
  /\ Ingested => df_combined.cols = FourColumns

\* C6: when no source yields a valid row the dataset returned by ingest_data
\* is empty with exactly the four columns, and generate_summary on it writes
\* the sentinel line and nothing else.
C6_EmptyIsWellFormed ==
  (Ingested /\ df_combined.rows = <<>>) =>
    /\ df_combined.cols = FourColumns
    /\ generate_summary(df_combined, BuildingManager).text = Sentinel

\* C7: highest_consuming_building returns None for a manager without
\* buildings; otherwise a building whose total no other building exceeds,
\* and among those of maximal total the one inserted first.
C7_HighestIsFirstMaximal ==
  LET h == highest_consuming_building(manager)
      Total(i) == calculate_total_consumption(manager.buildings[i])
  IN IF manager.buildings = <<>> THEN h = 0
     ELSE /\ h \in 1..Len(manager.buildings)
          /\ \A j \in 1..Len(manager.buildings) : Total(h) >= Total(j)
          /\ \A j \in 1..(h - 1) : Total(j) < Total(h)

C7_Witness ==
  /\ pc = "api"
  /\ Len(manager.buildings) = 3
  /\ calculate_total_consumption(manager.buildings[1]) = 1
  /\ calculate_total_consumption(manager.buildings[2]) = MaxKwh
  /\ calculate_total_consumption(manager.buildings[3]) = MaxKwh
  /\ highest_consuming_building(manager) = 2

\* Total kwh of the calendar day, or of the Sunday-ending week, of a reading.
DayTotalAt(rows, t) ==
  SumSeq(KwhOf(rows, LAMBDA r : Day(r.timestamp.v) = Day(t)))
WeekTotalAt(rows, t) ==
  SumSeq(KwhOf(rows, LAMBDA r : WeekEnd(Day(r.timestamp.v)) = WeekEnd(Day(t))))

WholeStemFrames ==
  {i \in 1..Len(frames) :
     /\ "building" \notin AcceptedFiles[i].cols
     /\ "month" \notin AcceptedFiles[i].cols
     /\ \A j \in 1..Len(AcceptedFiles[i].stem) : AcceptedFiles[i].stem[j] # "_"}

\* C9 as claimed: such a source gets the whole stem capitalized as building
\* and the whole stem capitalized as period label.
C9_StemCapitalizedForBoth ==
  \A i \in WholeStemFrames :
    \A j \in 1..Len(frames[i].rows) :
      /\ frames[i].rows[j].building = capitalize(AcceptedFiles[i].stem)
      /\ frames[i].rows[j].month = capitalize(AcceptedFiles[i].stem)

\* C9 amended: such a source gets the whole stem capitalized as building and
\* the whole stem unchanged as period label.
C9_StemVerbatimForMonth ==
  \A i \in WholeStemFrames :
    \A j \in 1..Len(frames[i].rows) :
      /\ frames[i].rows[j].building = capitalize(AcceptedFiles[i].stem)
      /\ frames[i].rows[j].month = AcceptedFiles[i].stem

C9_Witness ==
  \E i \in WholeStemFrames :
    /\ frames[i].rows # <<>>
    /\ capitalize(AcceptedFiles[i].stem) # AcceptedFiles[i].stem

=============================================================================
